---- MODULE Spec2Model ----
(***************************************************************************)
(* The Skald MCP server: the tool contract layer of src/index.ts (the      *)
(* three-tool build) and src/unnamed/part_001 (the six-tool build with the *)
(* filter schema).  An invocation is validated against the tool's zod      *)
(* schema, the handler shapes one backend call, awaits it, and formats the *)
(* resolved value or re-throws the rejection with the tool's prefix.       *)
(*                                                                         *)
(* JavaScript values are tagged records [t |-> type, v |-> value]; an      *)
(* object is a function from its own keys to values, so an absent key is a *)
(* key outside the DOMAIN.  A text is the sequence of its lines (the       *)
(* pieces that '\n' separates); strings are TLA+ strings.                  *)
(***************************************************************************)
EXTENDS Integers, Sequences, FiniteSets, TLC

VARIABLES build, skald, inv

vars == <<build, skald, inv>>

-----------------------------------------------------------------------------
(* Bounds of the model *)

MaxInflight == 2
MaxResults == 2
MaxTags == 2
MaxChunks == 2
MaxFilters == 2

-----------------------------------------------------------------------------
(* JavaScript values *)

Str(s) == [t |-> "string", v |-> s]
Num(n) == [t |-> "number", v |-> n]
Arr(s) == [t |-> "array", v |-> s]
Obj(f) == [t |-> "object", v |-> f]
Bool(b) == [t |-> "boolean", v |-> b]
Null == [t |-> "null"]
Undefined == [t |-> "undefined"]
Err(m) == [t |-> "Error", message |-> m]

EmptyObject == [k \in {} |-> Undefined]

\* obj.key : the value under the key, undefined when the object has no such key
Get(o, k) == IF k \in DOMAIN o THEN o[k] ELSE Undefined

\* the keys of o among ks, with their values
Pick(o, ks) == [k \in ks \cap DOMAIN o |-> o[k]]

\* ToBoolean, as `if (x)` and `x || y` apply it
Truthy(x) ==
    CASE x.t = "string" -> x.v # ""
      [] x.t = "number" -> x.v # 0
      [] x.t = "boolean" -> x.v
      [] x.t \in {"null", "undefined"} -> FALSE
      [] OTHER -> TRUE

\* String(x) for the values a rejection or a template literal can carry
StringOf(x) ==
    CASE x.t = "string" -> x.v
      [] x.t = "number" -> ToString(x.v)
      [] x.t = "boolean" -> IF x.v THEN "true" ELSE "false"
      [] x.t = "null" -> "null"
      [] x.t = "undefined" -> "undefined"
      [] x.t = "Error" -> "Error: " \o x.message
      [] OTHER -> "[object Object]"

RECURSIVE Repeat(_, _)
Repeat(s, n) == IF n = 0 THEN "" ELSE s \o Repeat(s, n - 1)

RECURSIVE Join(_, _)
\* Array.prototype.join on an array of strings
Join(ss, sep) ==
    IF ss = <<>> THEN ""
    ELSE IF Len(ss) = 1 THEN ss[1]
    ELSE ss[1] \o sep \o Join(Tail(ss), sep)

RECURSIVE Flatten(_, _)
\* the lines of blocks.join(sep), where each block is a sequence of lines and
\* sep is the sequence of lines that the separator puts between two blocks
Flatten(blocks, sep) ==
    IF blocks = <<>> THEN <<>>
    ELSE IF Len(blocks) = 1 THEN blocks[1]
    ELSE blocks[1] \o sep \o Flatten(Tail(blocks), sep)

\* the sequences over S of length at most n
SeqUpTo(S, n) == UNION {[1..k -> S] : k \in 0..n}

-----------------------------------------------------------------------------
(* The zod schemas of the registered tools *)

MaxStringLen == 255
LimitMin == 1
LimitMax == 50
DefaultLimit == 10

ZString == [kind |-> "string"]
ZStringMax(n) == [kind |-> "string", max |-> n]
ZNumber(lo, hi) == [kind |-> "number", min |-> lo, max |-> hi]
ZEnum(values) == [kind |-> "enum", values |-> values]
ZStringArray == [kind |-> "stringArray"]
ZRecord == [kind |-> "record"]
Optional(f) == [optional |-> TRUE] @@ f
WithDefault(f, d) == [default |-> d] @@ f

IsOptional(f) == "optional" \in DOMAIN f
HasDefault(f) == "default" \in DOMAIN f

Operators == {"eq", "neq", "contains", "startswith", "endswith", "in", "not_in"}
FilterTypes == {"native_field", "custom_metadata"}

\* one element of filterSchema: z.object({field, operator, value, filter_type})
\* FilterAccepts with the value left unchecked
FilterAcceptsAnyValue(x) ==
    /\ x.t = "object"
    /\ {"field", "operator", "value", "filter_type"} \subseteq DOMAIN x.v
    /\ x.v["field"].t = "string"
    /\ x.v["operator"].t = "string" /\ x.v["operator"].v \in Operators
    /\ x.v["filter_type"].t = "string" /\ x.v["filter_type"].v \in FilterTypes

FilterAccepts(x) ==
    /\ x.t = "object"
    /\ {"field", "operator", "value", "filter_type"} \subseteq DOMAIN x.v
    /\ x.v["field"].t = "string"
    /\ x.v["operator"].t = "string" /\ x.v["operator"].v \in Operators
    /\ \/ x.v["value"].t = "string"
       \/ /\ x.v["value"].t = "array"
          /\ \A i \in DOMAIN x.v["value"].v : x.v["value"].v[i].t = "string"
    /\ x.v["filter_type"].t = "string" /\ x.v["filter_type"].v \in FilterTypes

filterSchema == Optional([kind |-> "filters"])

\* Accepts with the numeric bounds left out of the number check
AcceptsUnbounded(f, x) ==
    CASE f.kind = "string" ->
            x.t = "string" /\ ("max" \in DOMAIN f => Len(x.v) <= f.max)
      [] f.kind = "number" -> x.t = "number"
      [] f.kind = "enum" -> x.t = "string" /\ x.v \in f.values
      [] f.kind = "stringArray" ->
            x.t = "array" /\ \A i \in DOMAIN x.v : x.v[i].t = "string"
      [] f.kind = "record" -> x.t = "object"
      [] f.kind = "filters" ->
            x.t = "array" /\ \A i \in DOMAIN x.v : FilterAccepts(x.v[i])

\* does the field's zod type accept the value x
Accepts(f, x) ==
    CASE f.kind = "string" ->
            x.t = "string" /\ ("max" \in DOMAIN f => Len(x.v) <= f.max)
      [] f.kind = "number" -> x.t = "number" /\ x.v >= f.min /\ x.v <= f.max
      [] f.kind = "enum" -> x.t = "string" /\ x.v \in f.values
      [] f.kind = "stringArray" ->
            x.t = "array" /\ \A i \in DOMAIN x.v : x.v[i].t = "string"
      [] f.kind = "record" -> x.t = "object"
      [] f.kind = "filters" ->
            x.t = "array" /\ \A i \in DOMAIN x.v : FilterAccepts(x.v[i])

Builds == {"index.ts", "part_001"}

SearchMethods(b) ==
    IF b = "index.ts"
    THEN {"chunk_vector_search", "title_contains", "title_startswith"}
    ELSE {"chunk_semantic_search"}

IdTypes == {"memo_uuid", "reference_id"}

IdTypeField == WithDefault(Optional(ZEnum(IdTypes)), Str("memo_uuid"))

\* the limit field without .default(10)
LimitFieldNoDefault == Optional(ZNumber(LimitMin, LimitMax))

LimitField == WithDefault(Optional(ZNumber(LimitMin, LimitMax)), Num(DefaultLimit))

ChatSchema(b) ==
    IF b = "index.ts"
    THEN [query |-> ZString, project_id |-> Optional(ZString)]
    ELSE [query |-> ZString, project_id |-> Optional(ZString),
          filters |-> filterSchema]

SearchSchema(b) ==
    IF b = "index.ts"
    THEN [query |-> ZString, search_method |-> ZEnum(SearchMethods(b)),
          limit |-> LimitField, tags |-> Optional(ZStringArray)]
    ELSE [query |-> ZString, search_method |-> ZEnum(SearchMethods(b)),
          limit |-> LimitField, filters |-> filterSchema]

CreateMemoSchema ==
    [title |-> ZStringMax(MaxStringLen), content |-> ZString,
     project_id |-> Optional(ZString), metadata |-> Optional(ZRecord),
     reference_id |-> Optional(ZStringMax(MaxStringLen)),
     tags |-> Optional(ZStringArray),
     source |-> Optional(ZStringMax(MaxStringLen))]

GetMemoSchema == [memo_id |-> ZString, id_type |-> IdTypeField]

UpdateMemoSchema ==
    [memo_id |-> ZString, id_type |-> IdTypeField,
     title |-> Optional(ZStringMax(MaxStringLen)),
     content |-> Optional(ZString), metadata |-> Optional(ZRecord),
     client_reference_id |-> Optional(ZStringMax(MaxStringLen)),
     source |-> Optional(ZStringMax(MaxStringLen)),
     expiration_date |-> Optional(ZString)]

DeleteMemoSchema == [memo_id |-> ZString, id_type |-> IdTypeField]

\* the tools each build registers with server.tool
Tools(b) ==
    IF b = "index.ts"
    THEN {"skald-chat", "skald-search", "skald-create-memo"}
    ELSE {"skald-chat", "skald-search", "skald-create-memo", "skald-get-memo",
          "skald-update-memo", "skald-delete-memo"}

Schema(b, tool) ==
    CASE tool = "skald-chat" -> ChatSchema(b)
      [] tool = "skald-search" -> SearchSchema(b)
      [] tool = "skald-create-memo" -> CreateMemoSchema
      [] tool = "skald-get-memo" -> GetMemoSchema
      [] tool = "skald-update-memo" -> UpdateMemoSchema
      [] tool = "skald-delete-memo" -> DeleteMemoSchema

\* the schema accepts the arguments: every given field fits its type, and
\* every field not given is optional or has a default
Valid(schema, a) ==
    \A k \in DOMAIN schema :
        IF k \in DOMAIN a THEN Accepts(schema[k], a[k])
        ELSE IsOptional(schema[k]) \/ HasDefault(schema[k])

\* the arguments the handler receives: the given fields, and the default of
\* every defaulted field that was not given
Parse(schema, a) ==
    [k \in (DOMAIN a \cap DOMAIN schema)
             \cup {d \in DOMAIN schema : HasDefault(schema[d])} |->
        IF k \in DOMAIN a THEN a[k] ELSE schema[k].default]

-----------------------------------------------------------------------------
(* Request shaping: the one backend call each handler issues *)

\* args.k is given and truthy: `if (args.k)`
Given(a, k) == Truthy(Get(a, k))

\* args.k is given at all: `if (args.k !== undefined)`
Defined(a, k) == Get(a, k) # Undefined

\* chatParams with project_id always set, null when it was not given
chatParamsNullProject(b, a) ==
    Pick(a, {"query"} \cup {k \in {"filters"} : b = "part_001" /\ Given(a, k)})
    @@ [project_id |-> IF Given(a, "project_id") THEN a["project_id"]
                       ELSE Null]

chatParams(b, a) ==
    Pick(a, {"query"}
            \cup {k \in {"project_id"} : Given(a, k)}
            \cup {k \in {"filters"} : b = "part_001" /\ Given(a, k)})

\* searchParams forwarding the filters only when the list has an element
searchParamsNonEmptyFilters(b, a) ==
    Pick(a, {"query", "search_method", "limit"}
            \cup {k \in {"tags"} : b = "index.ts" /\ Given(a, k)}
            \cup {k \in {"filters"} :
                    b = "part_001" /\ Given(a, k) /\ Len(a[k].v) > 0})

searchParams(b, a) ==
    Pick(a, {"query", "search_method", "limit"}
            \cup {k \in {"tags"} : b = "index.ts" /\ Given(a, k)}
            \cup {k \in {"filters"} : b = "part_001" /\ Given(a, k)})

memoData(a) ==
    Pick(a, {"title", "content"}
            \cup {k \in {"project_id", "metadata", "reference_id", "tags",
                         "source"} : Given(a, k)})

UpdateFields ==
    {"title", "content", "metadata", "client_reference_id", "source",
     "expiration_date"}

\* updateData with `if (args.k)` in place of `if (args.k !== undefined)`
updateDataTruthy(a) == Pick(a, {k \in UpdateFields : Given(a, k)})

updateData(a) == Pick(a, {k \in UpdateFields : Defined(a, k)})

\* the backend method the handler calls and its positional arguments
Call(b, tool, a) ==
    CASE tool = "skald-chat" ->
            [method |-> "chat", argv |-> <<Obj(chatParams(b, a))>>]
      [] tool = "skald-search" ->
            [method |-> "search", argv |-> <<Obj(searchParams(b, a))>>]
      [] tool = "skald-create-memo" ->
            [method |-> "createMemo", argv |-> <<Obj(memoData(a))>>]
      [] tool = "skald-get-memo" ->
            [method |-> "getMemo", argv |-> <<a["memo_id"], a["id_type"]>>]
      [] tool = "skald-update-memo" ->
            [method |-> "updateMemo",
             argv |-> <<a["memo_id"], Obj(updateData(a)), a["id_type"]>>]
      [] tool = "skald-delete-memo" ->
            [method |-> "deleteMemo", argv |-> <<a["memo_id"], a["id_type"]>>]

-----------------------------------------------------------------------------
(* Response formatting.  A formatter returns Text(lines), or Throw(e) when  *)
(* an expression of it throws inside the handler's try block.               *)

Text(lines) == [ok |-> TRUE, text |-> lines]
Throw(e) == [ok |-> FALSE, thrown |-> e]

\* the stand-in for the check mark U+2713, which opens the confirmations
CheckMark == "(U+2713)"

\* reading a property of undefined or null throws a TypeError
Nullish(x) == x.t \in {"undefined", "null"}
TypeErrorReading(x, k) ==
    Err("Cannot read properties of " \o x.t \o " (reading '" \o k \o "')")

\* x.k for a value x that is not nullish
Prop(x, k) == IF x.t = "object" THEN Get(x.v, k) ELSE Undefined

PreviewLen == 100

\* substring(0, n) giving back the whole string
SubstringWhole(s, n) == s

\* s.substring(0, n)
Substring0(s, n) == SubSeq(s, 1, IF Len(s) < n THEN Len(s) ELSE n)

\* a distance of n hundred-thousandths
Frac(n) == [t |-> "number", e5 |-> n]

\* the digits of n, left-padded with zeros to width w
RECURSIVE Pad(_, _)
Pad(s, w) == IF Len(s) >= w THEN s ELSE Pad("0" \o s, w)

\* x.toFixed(4) of a distance: rounded to the nearest ten-thousandth
toFixed4(x) ==
    LET q == (x.e5 + 5) \div 10
    IN  ToString(q \div 10000) \o "." \o Pad(ToString(q % 10000), 4)

FormatChat(b, a, r) ==
    IF b = "index.ts"
    THEN IF Nullish(r) THEN Throw(TypeErrorReading(r, "response"))
         ELSE Text(<<IF Truthy(Prop(r, "response"))
                     THEN StringOf(Prop(r, "response"))
                     ELSE "No response received">>)
    ELSE Text(<<IF Truthy(r) THEN StringOf(r) ELSE "No response received">>)

\* the lines of one search result, numbered idx
ResultParts(result, idx) ==
    <<ToString(idx) \o ". " \o StringOf(Prop(result, "title")),
      "   UUID: " \o StringOf(Prop(result, "uuid")),
      "   Summary: " \o StringOf(Prop(result, "summary")),
      "   Snippet: " \o StringOf(Prop(result, "content_snippet"))>>
    \o IF Prop(result, "distance") # Null
       THEN <<"   Distance: " \o toFixed4(Prop(result, "distance"))
                \o " (lower is more relevant)">>
       ELSE <<>>

\* result.distance.toFixed throws when distance is not null and has no value
DistanceThrows(result) == Prop(result, "distance") = Undefined

FormatSearch(b, a, r) ==
    IF Nullish(r) THEN Throw(TypeErrorReading(r, "results"))
    ELSE IF Nullish(Prop(r, "results"))
    THEN Throw(TypeErrorReading(Prop(r, "results"), "length"))
    ELSE LET results == Prop(r, "results").v
             n == Len(results)
             resultText ==
                 IF n > 0
                 THEN Flatten([i \in 1..n |-> ResultParts(results[i], i)],
                              <<"">>)
                 ELSE <<"No results found">>
         IN  IF \E i \in 1..n : DistanceThrows(results[i])
             THEN Throw(TypeErrorReading(Undefined, "toFixed"))
             ELSE Text(<<"Found " \o ToString(n) \o " result(s):", "">>
                       \o resultText)

\* FormatCreateMemo throwing on a result that is not ok
FormatCreateMemoThrowing(b, a, r) ==
    IF Nullish(r) THEN Throw(TypeErrorReading(r, "ok"))
    ELSE IF Truthy(Prop(r, "ok"))
    THEN Text(<<CheckMark \o " Memo \"" \o a["title"].v
                  \o "\" created successfully!">>)
    ELSE Throw(Err("Failed to create memo"))

FormatCreateMemo(b, a, r) ==
    IF Nullish(r) THEN Throw(TypeErrorReading(r, "ok"))
    ELSE Text(<<IF Truthy(Prop(r, "ok"))
                THEN CheckMark \o " Memo \"" \o a["title"].v
                       \o "\" created successfully!"
                ELSE "Failed to create memo">>)

\* `${x ?? 'None'}`: only null and undefined fall back to None
OrNoneNullish(x) == IF Nullish(x) THEN "None" ELSE StringOf(x)

\* `${x || 'None'}`
OrNone(x) == IF Truthy(x) THEN StringOf(x) ELSE "None"

FormatGetMemo(b, a, memo) ==
    IF Nullish(memo) THEN Throw(TypeErrorReading(memo, "tags"))
    ELSE IF Nullish(Prop(memo, "tags"))
    THEN Throw(TypeErrorReading(Prop(memo, "tags"), "map"))
    ELSE IF Nullish(Prop(memo, "chunks"))
    THEN Throw(TypeErrorReading(Prop(memo, "chunks"), "map"))
    ELSE LET tags == Prop(memo, "tags").v
             chunks == Prop(memo, "chunks").v
             tagsText ==
                 Join([i \in DOMAIN tags |-> Prop(tags[i], "tag").v], ", ")
             chunkLines ==
                 [i \in DOMAIN chunks |->
                     "Chunk " \o StringOf(Prop(chunks[i], "chunk_index"))
                       \o ": "
                       \o Substring0(Prop(chunks[i], "chunk_content").v,
                                     PreviewLen)
                       \o "..."]
             chunksText == Join(chunkLines, "\n")
             parts ==
                 << <<"Memo: " \o StringOf(Prop(memo, "title"))>>,
                    <<"UUID: " \o StringOf(Prop(memo, "uuid"))>>,
                    <<"Created: " \o StringOf(Prop(memo, "created_at"))>>,
                    <<"Updated: " \o StringOf(Prop(memo, "updated_at"))>>,
                    <<"Summary: " \o StringOf(Prop(memo, "summary"))>>,
                    <<"Content: " \o StringOf(Prop(memo, "content"))>>,
                    <<"Tags: " \o OrNone(Str(tagsText))>>,
                    <<"Client Reference ID: "
                        \o OrNone(Prop(memo, "client_reference_id"))>>,
                    <<"Source: " \o OrNone(Prop(memo, "source"))>>,
                    <<"Type: " \o StringOf(Prop(memo, "type"))>>,
                    <<"Chunks: " \o ToString(Len(chunks))>>,
                    IF chunksText # "" THEN <<"">> \o chunkLines
                    ELSE <<"">> >>
             kept == SelectSeq(parts, LAMBDA p : p # <<"">>)
         IN  Text(Flatten(kept, <<>>))

FormatUpdateMemo(b, a, r) ==
    IF Nullish(r) THEN Throw(TypeErrorReading(r, "ok"))
    ELSE Text(<<IF Truthy(Prop(r, "ok"))
                THEN CheckMark \o " Memo \"" \o a["memo_id"].v
                       \o "\" updated successfully!"
                ELSE "Failed to update memo">>)

\* FormatDeleteMemo testing response.ok as the create and update handlers do
FormatDeleteMemoReadingOk(b, a, r) ==
    IF Nullish(r) THEN Throw(TypeErrorReading(r, "ok"))
    ELSE Text(<<IF Truthy(Prop(r, "ok"))
                THEN CheckMark \o " Memo \"" \o a["memo_id"].v
                       \o "\" deleted successfully!"
                ELSE "Failed to delete memo">>)

FormatDeleteMemo(b, a, r) ==
    Text(<<CheckMark \o " Memo \"" \o a["memo_id"].v
             \o "\" deleted successfully!">>)

Format(b, tool, a, r) ==
    CASE tool = "skald-chat" -> FormatChat(b, a, r)
      [] tool = "skald-search" -> FormatSearch(b, a, r)
      [] tool = "skald-create-memo" -> FormatCreateMemo(b, a, r)
      [] tool = "skald-get-memo" -> FormatGetMemo(b, a, r)
      [] tool = "skald-update-memo" -> FormatUpdateMemo(b, a, r)
      [] tool = "skald-delete-memo" -> FormatDeleteMemo(b, a, r)

\* the fixed prefix of the error each handler's catch block throws
ErrorPrefix(tool) ==
    CASE tool = "skald-chat" -> "Failed to get response from Skald chat: "
      [] tool = "skald-search" -> "Failed to search Skald memos: "
      [] tool = "skald-create-memo" -> "Failed to create Skald memo: "
      [] tool = "skald-get-memo" -> "Failed to get Skald memo: "
      [] tool = "skald-update-memo" -> "Failed to update Skald memo: "
      [] tool = "skald-delete-memo" -> "Failed to delete Skald memo: "

\* errorMessage without the instanceof test: String(error) for every value
errorMessageString(e) == StringOf(e)

\* error instanceof Error ? error.message : String(error)
errorMessage(e) == IF e.t = "Error" THEN e.message ELSE StringOf(e)

\* the catch block: the error the handler throws for the caught value e
Catch(tool, e) == ErrorPrefix(tool) \o errorMessage(e)

-----------------------------------------------------------------------------
(* The inputs: what a host may send and what the backend may answer *)

Absent == [t |-> "absent"]

\* every object that takes, for each key of ch, one value of ch[key], the key
\* being left out where that value is Absent
RECURSIVE Product(_)
Product(ch) ==
    IF DOMAIN ch = {} THEN {EmptyObject}
    ELSE LET k == CHOOSE j \in DOMAIN ch : TRUE
             rest == Product([j \in DOMAIN ch \ {k} |-> ch[j]])
         IN  {IF x = Absent THEN f ELSE (k :> x) @@ f : x \in ch[k], f \in rest}

\* the object f without the keys whose value is Absent
Compact(f) == [k \in {j \in DOMAIN f : f[j] # Absent} |-> f[k]]

TooLong == Repeat("a", MaxStringLen + 1)

OptString(s) == {Absent, Str(""), Str(s)}

Filter(field, operator, value, filter_type) ==
    Obj([field |-> Str(field), operator |-> Str(operator), value |-> value,
         filter_type |-> Str(filter_type)])

FilterPool ==
    {Filter("source", "eq", Str("docs"), "native_field"),
     Filter("tags", "in", Arr(<<Str("a"), Str("b")>>), "native_field"),
     Filter("team", "in", Str("core"), "custom_metadata"),
     Filter("source", "eq", Num(3), "native_field"),
     Filter("source", "like", Str("docs"), "native_field")}

FilterLists == {Arr(fs) : fs \in SeqUpTo(FilterPool, MaxFilters)}

TagLists == {Arr(<<>>), Arr(<<Str("a")>>)}

Metadatas == {Obj(EmptyObject), Obj([team |-> Str("core")])}

IdTypeArgs == {Absent, Str("memo_uuid"), Str("reference_id"), Str("uuid")}

MemoIdArgs == {Absent, Str("m-1"), Num(1)}

ChatArgs ==
    Product([query |-> {Absent, Str("what is skald"), Num(7)},
             project_id |-> OptString("proj-1"),
             filters |-> {Absent} \cup FilterLists])

SearchArgs ==
    Product([query |-> {Absent, Str("oauth")},
             search_method |->
                 {Str("chunk_vector_search"), Str("title_contains"),
                  Str("chunk_semantic_search"), Str("fuzzy")},
             limit |-> {Absent, Num(LimitMin - 1), Num(LimitMin),
                        Num(LimitMax), Num(LimitMax + 1), Str("10")},
             tags |-> {Absent, Arr(<<Str("a")>>)}])
    \cup Product([query |-> {Str("oauth")},
                  search_method |->
                      {Str("title_contains"), Str("chunk_semantic_search")},
                  filters |-> FilterLists])

CreateMemoArgs ==
    Product([title |-> {Str("API Reference"), Str(""), Str(TooLong)},
             content |-> {Absent, Str("body")},
             project_id |-> OptString("proj-1"),
             metadata |-> {Absent} \cup Metadatas,
             reference_id |-> OptString("ref-1"),
             tags |-> {Absent} \cup TagLists,
             source |-> OptString("web")])

MemoIdTypeArgs == Product([memo_id |-> MemoIdArgs, id_type |-> IdTypeArgs])

UpdateMemoArgs ==
    Product([memo_id |-> {Str("m-1")},
             id_type |-> {Absent, Str("reference_id")},
             title |-> OptString("New title") \cup {Str(TooLong)},
             content |-> OptString("body"),
             metadata |-> {Absent, Obj(EmptyObject)},
             client_reference_id |-> OptString("ref-1"),
             source |-> OptString("web"),
             expiration_date |-> OptString("2027-01-01")])

\* the arguments a host may send to a tool
ArgPool(tool) ==
    CASE tool = "skald-chat" -> ChatArgs
      [] tool = "skald-search" -> SearchArgs
      [] tool = "skald-create-memo" -> CreateMemoArgs
      [] tool = "skald-get-memo" -> MemoIdTypeArgs
      [] tool = "skald-update-memo" -> UpdateMemoArgs
      [] tool = "skald-delete-memo" -> MemoIdTypeArgs

SearchResult(title, distance) ==
    Obj(Compact([title |-> Str(title), uuid |-> Str("u-" \o title),
                 summary |-> Str("About " \o title),
                 content_snippet |-> Str("... " \o title \o " ..."),
                 distance |-> distance]))

\* results with a distance, with a null distance, and without the key
ResultPool ==
    {SearchResult("Alpha", Frac(12345)), SearchResult("Beta", Null),
     SearchResult("Gamma", Absent), SearchResult("Delta", Frac(250000))}

Chunk(index, content) ==
    Obj([chunk_index |-> Num(index), chunk_content |-> Str(content)])

ChunkPool ==
    {Chunk(0, "short chunk"), Chunk(1, Repeat("0123456789", 12))}

TagPool == {Obj([tag |-> Str(x)]) : x \in {"a", "b", ""}}

Memo(tags, chunks, ref, source) ==
    Obj(Compact([uuid |-> Str("m-1"), title |-> Str("API Reference"),
                 content |-> Str("body"), summary |-> Str("A summary"),
                 type |-> Str("document"), created_at |-> Str("2026-01-01"),
                 updated_at |-> Str("2026-02-01"), tags |-> Arr(tags),
                 chunks |-> Arr(chunks), client_reference_id |-> ref,
                 source |-> source]))

\* the object memo with its attribute k set to x
WithAttribute(memo, k, x) == Obj((k :> x) @@ memo.v)

\* memos whose summary is the empty string
UnsummarizedMemos ==
    {WithAttribute(Memo(<<>>, chunks, Absent, Absent), "summary", Str("")) :
        chunks \in SeqUpTo(ChunkPool, MaxChunks)}

ChatResponses ==
    {Undefined, Str(""), Str("Skald is a knowledge base [[1]]"),
     Obj([response |-> Str("Skald is a knowledge base")]),
     Obj([ok |-> Bool(TRUE)])}

SearchResponses ==
    {Undefined}
    \cup {Obj([results |-> Arr(rs)]) : rs \in SeqUpTo(ResultPool, MaxResults)}

OkResponses ==
    {Undefined, Obj(EmptyObject), Obj([ok |-> Bool(TRUE)]),
     Obj([ok |-> Bool(FALSE)])}

MemoResponses ==
    {Undefined}
    \cup {Memo(tags, chunks, ref, source) :
            tags \in SeqUpTo(TagPool, MaxTags),
            chunks \in SeqUpTo(ChunkPool, MaxChunks),
            ref \in {Absent, Null, Str(""), Str("ref-1")},
            source \in {Absent, Str(""), Str("web")}}
    \cup UnsummarizedMemos

\* the values the backend's promise may resolve with
Responses(tool) ==
    CASE tool = "skald-chat" -> ChatResponses
      [] tool = "skald-search" -> SearchResponses
      [] tool \in {"skald-create-memo", "skald-update-memo"} -> OkResponses
      [] tool = "skald-get-memo" -> MemoResponses
      [] tool = "skald-delete-memo" -> {Undefined}
      [] OTHER -> {}

\* the values the backend's promise may reject with
Failures == {Err("network timeout"), Str("socket closed"), Undefined}

-----------------------------------------------------------------------------
(* The dispatcher: one record per invocation slot *)

Slots == 1..MaxInflight

NoCall == [method |-> "", argv |-> <<>>]

Idle ==
    [phase |-> "idle", tool |-> "", args |-> EmptyObject,
     parsed |-> EmptyObject, call |-> NoCall, calls |-> 0, traced |-> FALSE,
     settled |-> "", response |-> Undefined, status |-> "None",
     text |-> <<>>, error |-> ""]

\* new Skald(apiKey): the backend client, holding the credential
Skald(apiKey) == [apiKey |-> apiKey]

TypeOK ==
    /\ build \in Builds
    /\ skald = Skald("sk-key")
    /\ DOMAIN inv = Slots
    /\ \A s \in Slots :
          /\ inv[s].phase \in {"idle", "rejected", "awaiting", "done"}
          /\ inv[s].status \in {"None", "NotFound", "Rejected", "Pending",
                                "Succeeded", "Failed"}

Init ==
    /\ build \in Builds
    /\ skald = Skald("sk-key")
    /\ inv = [s \in Slots |-> Idle]

\* the host calls a tool: the schema is checked, and only then the handler
\* runs, up to its await of the one backend call
Invoke(s, tool, raw) ==
    /\ inv[s].phase = "idle"
    /\ tool \in Tools(build)
    /\ inv' =
        [inv EXCEPT ![s] =
            IF ~Valid(Schema(build, tool), raw)
            THEN [Idle EXCEPT !.phase = "rejected", !.tool = tool,
                              !.args = raw, !.status = "Rejected"]
            ELSE LET a == Parse(Schema(build, tool), raw)
                 IN  [Idle EXCEPT !.phase = "awaiting", !.tool = tool,
                                  !.args = raw, !.parsed = a,
                                  !.traced = TRUE,
                                  !.call = Call(build, tool, a),
                                  !.calls = 1, !.status = "Pending"]]
    /\ UNCHANGED <<build, skald>>

\* the tools the README lists under "Available Tools"
DocumentedTools ==
    {"skald-chat", "skald-search", "skald-create-memo", "skald-get-memo",
     "skald-update-memo", "skald-delete-memo", "skald-generate"}

\* the host calls a documented name that no server.tool() registered: the
\* dispatcher finds no handler and answers that the tool does not exist
InvokeUnregistered(s, tool) ==
    /\ inv[s].phase = "idle"
    /\ tool \in DocumentedTools \ Tools(build)
    /\ inv' = [inv EXCEPT ![s] =
                  [Idle EXCEPT !.phase = "rejected", !.tool = tool,
                               !.status = "NotFound"]]
    /\ UNCHANGED <<build, skald>>

\* what the handler returns or throws once the awaited call resolved with r
Returned(b, tool, a, r) ==
    LET f == Format(b, tool, a, r)
    IN  IF f.ok THEN [status |-> "Succeeded", text |-> f.text, error |-> ""]
        ELSE [status |-> "Failed", text |-> <<>>,
              error |-> Catch(tool, f.thrown)]

\* Resolve formatting with the arguments of another invocation of the same
\* tool, as with an argument object kept at module level
ResolveSharedArgs(s, r) ==
    /\ inv[s].phase = "awaiting"
    /\ LET others == {u \in Slots \ {s} : inv[u].tool = inv[s].tool}
           a == IF others = {} THEN inv[s].parsed
                ELSE inv[CHOOSE u \in others : TRUE].parsed
           out == Returned(build, inv[s].tool, a, r)
       IN  inv' = [inv EXCEPT ![s].phase = "done",
                              ![s].settled = "resolved",
                              ![s].response = r,
                              ![s].status = out.status,
                              ![s].text = out.text,
                              ![s].error = out.error]
    /\ UNCHANGED <<build, skald>>

\* the backend call of slot s resolves with r
Resolve(s, r) ==
    /\ inv[s].phase = "awaiting"
    /\ LET out == Returned(build, inv[s].tool, inv[s].parsed, r)
       IN  inv' = [inv EXCEPT ![s].phase = "done",
                              ![s].settled = "resolved",
                              ![s].response = r,
                              ![s].status = out.status,
                              ![s].text = out.text,
                              ![s].error = out.error]
    /\ UNCHANGED <<build, skald>>

\* Reject with one retry: the first rejection issues the call again
RejectAndRetry(s, e) ==
    /\ inv[s].phase = "awaiting"
    /\ inv' = IF inv[s].calls < 2
              THEN [inv EXCEPT ![s].calls = inv[s].calls + 1]
              ELSE [inv EXCEPT ![s].phase = "done",
                               ![s].settled = "rejected",
                               ![s].response = e,
                               ![s].status = "Failed",
                               ![s].error = Catch(inv[s].tool, e)]
    /\ UNCHANGED <<build, skald>>

\* the backend call of slot s rejects with e: the catch block re-throws
Reject(s, e) ==
    /\ inv[s].phase = "awaiting"
    /\ inv' = [inv EXCEPT ![s].phase = "done",
                          ![s].settled = "rejected",
                          ![s].response = e,
                          ![s].status = "Failed",
                          ![s].error = Catch(inv[s].tool, e)]
    /\ UNCHANGED <<build, skald>>

\* the rejection, the result or the error goes back to the host, which ends
\* the invocation
Deliver(s) ==
    /\ inv[s].phase \in {"rejected", "done"}
    /\ inv' = [inv EXCEPT ![s] = Idle]
    /\ UNCHANGED <<build, skald>>

\* the host sends one tool call at a time (slot 1)
Next ==
    \/ \E tool \in Tools(build) : \E raw \in ArgPool(tool) :
          Invoke(1, tool, raw)
    \/ \E tool \in DocumentedTools : InvokeUnregistered(1, tool)
    \/ \E r \in Responses(inv[1].tool) : Resolve(1, r)
    \/ \E e \in Failures : Reject(1, e)
    \/ Deliver(1)

Spec == Init /\ [][Next]_vars

\* a host that overlaps its calls: up to MaxInflight invocations in flight,
\* their backend calls settling in any order
OverlapArgs(tool) ==
    CASE tool = "skald-chat" ->
            {[query |-> Str("what is skald")], [query |-> Num(7)]}
      [] tool = "skald-search" ->
            {[query |-> Str("oauth"), search_method |-> Str("title_contains")],
             [query |-> Str("oauth"),
              search_method |-> Str("chunk_semantic_search"),
              limit |-> Num(LimitMax + 1)]}
      [] tool = "skald-create-memo" ->
            {[title |-> Str("API Reference"), content |-> Str("body")],
             [title |-> Str("Release notes"), content |-> Str("body")]}
      [] tool = "skald-update-memo" ->
            {[memo_id |-> Str("m-1"), title |-> Str("New title")]}
      [] OTHER -> {[memo_id |-> Str("m-1")]}

OverlapResponses(tool) ==
    CASE tool = "skald-chat" ->
            {Str("Skald is a knowledge base [[1]]"),
             Obj([response |-> Str("Skald is a knowledge base")])}
      [] tool = "skald-search" ->
            {Obj([results |-> Arr(<<>>)]),
             Obj([results |-> Arr(<<SearchResult("Gamma", Absent)>>)])}
      [] tool \in {"skald-create-memo", "skald-update-memo"} ->
            {Obj([ok |-> Bool(TRUE)]), Obj([ok |-> Bool(FALSE)])}
      [] tool = "skald-get-memo" ->
            {Undefined, Memo(<<>>, <<>>, Absent, Str("web"))}
      [] tool = "skald-delete-memo" -> {Undefined}
      [] OTHER -> {}

NextOverlap ==
    \E s \in Slots :
        \/ \E tool \in Tools(build) : \E raw \in OverlapArgs(tool) :
              Invoke(s, tool, raw)
        \/ \E tool \in DocumentedTools : InvokeUnregistered(s, tool)
        \/ \E r \in OverlapResponses(inv[s].tool) : Resolve(s, r)
        \/ Reject(s, Err("network timeout"))
        \/ Deliver(s)

SpecOverlap == Init /\ [][NextOverlap]_vars

-----------------------------------------------------------------------------
(* Properties *)

\* the handler of slot s ran: it traced, shaped and issued its backend call
Started(s) == inv[s].phase \in {"awaiting", "done"}

BadString(a, k) == k \in DOMAIN a /\ a[k].t # "string"
LongString(a, k, n) == k \in DOMAIN a /\ a[k].t = "string" /\ Len(a[k].v) > n
BadEnum(a, k, S) == k \in DOMAIN a /\ (a[k].t # "string" \/ a[k].v \notin S)
BadNumber(a, k, lo, hi) ==
    k \in DOMAIN a /\ (a[k].t # "number" \/ a[k].v < lo \/ a[k].v > hi)

DeclaredMethods(b) ==
    IF b = "index.ts"
    THEN {"chunk_vector_search", "title_contains", "title_startswith"}
    ELSE {"chunk_semantic_search"}

\* the arguments a break the declared schema of the tool by a wrong type, a
\* value outside an enumeration or a value outside a bound
ViolatesSchema(b, tool, a) ==
    CASE tool = "skald-chat" ->
            BadString(a, "query") \/ BadString(a, "project_id")
      [] tool = "skald-search" ->
            \/ BadString(a, "query")
            \/ BadEnum(a, "search_method", DeclaredMethods(b))
            \/ BadNumber(a, "limit", 1, 50)
      [] tool = "skald-create-memo" ->
            \/ \E k \in {"title", "content", "project_id", "reference_id",
                         "source"} : BadString(a, k)
            \/ \E k \in {"title", "reference_id", "source"} :
                  LongString(a, k, 255)
      [] tool = "skald-update-memo" ->
            \/ \E k \in {"memo_id", "title", "content", "client_reference_id",
                         "source", "expiration_date"} : BadString(a, k)
            \/ \E k \in {"title", "client_reference_id", "source"} :
                  LongString(a, k, 255)
            \/ BadEnum(a, "id_type", {"memo_uuid", "reference_id"})
      [] OTHER ->
            \/ BadString(a, "memo_id")
            \/ BadEnum(a, "id_type", {"memo_uuid", "reference_id"})

\* C1: an invocation whose arguments violate the tool's schema (wrong type,
\* value outside an enumeration or outside a bound) is rejected before the
\* handler runs: it issues no backend call, writes no trace line, and ends
\* neither Succeeded nor Failed.
C1_RejectedBeforeHandler ==
    \A s \in Slots :
        (inv[s].phase # "idle"
           /\ ViolatesSchema(build, inv[s].tool, inv[s].args))
        => /\ inv[s].phase = "rejected"
           /\ inv[s].status = "Rejected"
           /\ inv[s].calls = 0
           /\ inv[s].call = NoCall
           /\ ~inv[s].traced

\* a search with limit 51 was rejected
C1_Witness ==
    \E s \in Slots :
        /\ inv[s].phase = "rejected"
        /\ inv[s].tool = "skald-search"
        /\ "limit" \in DOMAIN inv[s].args
        /\ inv[s].args["limit"] = Num(51)
        /\ ~BadString(inv[s].args, "query")
        /\ "query" \in DOMAIN inv[s].args
        /\ ~BadEnum(inv[s].args, "search_method", DeclaredMethods(build))

FixedPrefix(tool) ==
    CASE tool = "skald-chat" -> "Failed to get response from Skald chat: "
      [] tool = "skald-search" -> "Failed to search Skald memos: "
      [] tool = "skald-create-memo" -> "Failed to create Skald memo: "
      [] tool = "skald-get-memo" -> "Failed to get Skald memo: "
      [] tool = "skald-update-memo" -> "Failed to update Skald memo: "
      [] tool = "skald-delete-memo" -> "Failed to delete Skald memo: "

\* C2: when a tool's backend call rejects, the invocation ends as a tool error
\* whose text is exactly the tool's fixed prefix followed by the failure's
\* message, or by the string conversion of the failure when it is not an
\* Error; chat failing with 'network timeout' yields exactly
\* 'Failed to get response from Skald chat: network timeout'.
C2_RejectionText ==
    \A s \in Slots :
        (inv[s].phase = "done" /\ inv[s].settled = "rejected")
        => /\ inv[s].status = "Failed"
           /\ inv[s].text = <<>>
           /\ inv[s].error =
                FixedPrefix(inv[s].tool)
                  \o (IF inv[s].response.t = "Error"
                      THEN inv[s].response.message
                      ELSE StringOf(inv[s].response))
           /\ (inv[s].tool = "skald-chat"
                 /\ inv[s].response = Err("network timeout"))
              => inv[s].error =
                   "Failed to get response from Skald chat: network timeout"

\* the chat call rejected with the Error 'network timeout'
C2_Witness ==
    \E s \in Slots :
        /\ inv[s].phase = "done"
        /\ inv[s].settled = "rejected"
        /\ inv[s].tool = "skald-chat"
        /\ inv[s].response = Err("network timeout")
        /\ inv[s].error =
             "Failed to get response from Skald chat: network timeout"

Terminal(r) == r.status \in {"Succeeded", "Failed"}

\* C3: an invocation goes from Pending to exactly one of Succeeded or Failed,
\* that state never changes afterwards (the slot only goes back to the host),
\* and at most one backend call is issued for it: a rejection ends it Failed
\* with the call count still one, for overlapping invocations as well.
C3_SingleResolution ==
    [][\A s \in Slots :
          /\ Terminal(inv[s]) => inv'[s] \in {inv[s], Idle}
          /\ (Terminal(inv'[s]) /\ inv'[s] # inv[s])
             => /\ inv[s].status = "Pending"
                /\ inv[s].calls = 1
                /\ inv'[s].call = inv[s].call
          /\ inv[s].status = "Pending"
             => /\ inv'[s].status \in {"Pending", "Succeeded", "Failed"}
                /\ inv'[s].calls = inv[s].calls
          /\ inv'[s].calls <= 1
          /\ inv'[s].settled = "rejected"
             => inv'[s].status = "Failed" /\ inv'[s].calls = 1]_vars

\* two invocations ended, one Failed after its only call rejected, the other
\* Succeeded
C3_Witness ==
    \E s, u \in Slots :
        /\ inv[s].status = "Failed" /\ inv[s].settled = "rejected"
        /\ inv[s].calls = 1
        /\ inv[u].status = "Succeeded" /\ inv[u].calls = 1

\* the fields of the tool that the schema requires
RequiredFields(tool) ==
    CASE tool = "skald-chat" -> {"query"}
      [] tool = "skald-search" -> {"query", "search_method"}
      [] tool = "skald-create-memo" -> {"title", "content"}
      [] OTHER -> {"memo_id"}

\* the optional fields of the tool for which the schema declares a default
DeclaredDefaults(tool) ==
    CASE tool = "skald-search" -> [limit |-> Num(10)]
      [] tool \in {"skald-get-memo", "skald-update-memo",
                   "skald-delete-memo"} -> [id_type |-> Str("memo_uuid")]
      [] OTHER -> EmptyObject

\* what a backend call carries, by field name: the keys of its payload
\* object and its positional memo_id and id_type
Forwarded(call) ==
    CASE call.method \in {"chat", "search", "createMemo"} -> call.argv[1].v
      [] call.method \in {"getMemo", "deleteMemo"} ->
            [memo_id |-> call.argv[1], id_type |-> call.argv[2]]
      [] call.method = "updateMemo" ->
            [memo_id |-> call.argv[1], id_type |-> call.argv[3]]
              @@ call.argv[2].v
      [] OTHER -> EmptyObject

OnlyRequiredGiven(s) ==
    Started(s) /\ DOMAIN inv[s].args = RequiredFields(inv[s].tool)

\* C4 as stated: for all tools, search included, when the caller omits every
\* optional parameter the backend receives exactly the tool's required fields
\* and nothing else, no defaulted placeholder either.
C4_ExactlyRequiredFields ==
    \A s \in Slots :
        OnlyRequiredGiven(s)
        => DOMAIN Forwarded(inv[s].call) = RequiredFields(inv[s].tool)

\* C4 (amended): when the caller omits every optional parameter the backend
\* receives exactly the required fields with the caller's values, plus the
\* declared default of each optional parameter that has one (limit = 10 for
\* search, id_type = 'memo_uuid' for get-memo, update-memo and delete-memo);
\* no other optional field is sent, as null, as empty or otherwise.
C4_RequiredFieldsAndDefaults ==
    \A s \in Slots :
        OnlyRequiredGiven(s)
        => Forwarded(inv[s].call)
             = inv[s].args @@ DeclaredDefaults(inv[s].tool)

\* a search call was issued with only query and search_method given: it
\* carries limit as well
C4_Witness ==
    \E s \in Slots :
        /\ OnlyRequiredGiven(s)
        /\ inv[s].tool = "skald-search"
        /\ DOMAIN Forwarded(inv[s].call) = {"query", "search_method", "limit"}

UpdatableFields ==
    {"title", "content", "metadata", "client_reference_id", "source",
     "expiration_date"}

\* C5: the keys of the update payload sent to the backend are exactly the
\* optional fields (title, content, metadata, client_reference_id, source,
\* expiration_date) the caller provided, each with the provided value.
C5_UpdatePayload ==
    \A s \in Slots :
        (Started(s) /\ inv[s].tool = "skald-update-memo")
        => LET data == inv[s].call.argv[2].v
           IN  /\ DOMAIN data = DOMAIN inv[s].args \cap UpdatableFields
               /\ \A k \in DOMAIN data : data[k] = inv[s].args[k]

\* an update that provides only a title, and an empty one, sent only title
C5_Witness ==
    \E s \in Slots :
        /\ Started(s) /\ inv[s].tool = "skald-update-memo"
        /\ DOMAIN inv[s].args \cap UpdatableFields = {"title"}
        /\ inv[s].args["title"] = Str("")
        /\ inv[s].call.argv[2] = Obj([title |-> Str("")])

Resolved(s, tool) ==
    /\ inv[s].phase = "done" /\ inv[s].settled = "resolved"
    /\ inv[s].tool = tool

\* the resolved value carries a results array
HasResults(r) ==
    r.t = "object" /\ "results" \in DOMAIN r.v /\ r.v["results"].t = "array"

\* the title, UUID, summary and snippet lines of result i start at line p
ResultAt(txt, p, i, res) ==
    /\ p + 3 <= Len(txt)
    /\ txt[p] = ToString(i) \o ". " \o res.v["title"].v
    /\ txt[p + 1] = "   UUID: " \o res.v["uuid"].v
    /\ txt[p + 2] = "   Summary: " \o res.v["summary"].v
    /\ txt[p + 3] = "   Snippet: " \o res.v["content_snippet"].v

\* C7: for a backend result list of length N the search text starts with the
\* count line 'Found N result(s):' and a blank line; for N = 0 the whole text
\* is 'Found 0 result(s):\n\nNo results found'; for N > 0 the results appear
\* in backend order, numbered 1..N, each with its title, UUID, summary and
\* snippet lines, and 'No results found' does not appear.
C7_SearchText ==
    \A s \in Slots :
        (Resolved(s, "skald-search") /\ HasResults(inv[s].response))
        => LET results == inv[s].response.v["results"].v
               n == Len(results)
               txt == inv[s].text
           IN  /\ inv[s].status = "Succeeded"
               /\ Len(txt) >= 3
               /\ txt[1] = "Found " \o ToString(n) \o " result(s):"
               /\ txt[2] = ""
               /\ n = 0
                  => txt = <<"Found 0 result(s):", "", "No results found">>
               /\ n > 0
                  => /\ \A i \in 1..n :
                           \E p \in 3..Len(txt) : ResultAt(txt, p, i, results[i])
                     /\ \A i, j \in 1..n :
                           i < j
                           => \E p, q \in 3..Len(txt) :
                                 /\ p < q
                                 /\ ResultAt(txt, p, i, results[i])
                                 /\ ResultAt(txt, q, j, results[j])
                     /\ \A p \in 1..Len(txt) : txt[p] # "No results found"

\* the distance carried by a result is a value (not null, not absent)
HasDistance(res) ==
    "distance" \in DOMAIN res.v /\ res.v["distance"].t = "number"

\* the value to 4 decimal places
FourDecimals(d) ==
    CASE d = Frac(12345) -> "0.1235"
      [] d = Frac(250000) -> "2.5000"

\* the line after the snippet line of the result at p is a distance line
DistanceLineAt(txt, p) ==
    /\ p + 4 <= Len(txt)
    /\ Len(txt[p + 4]) >= 12
    /\ SubSeq(txt[p + 4], 1, 12) = "   Distance:"

\* C8: a result's distance line (the value to 4 decimal places, then
\* '(lower is more relevant)') is rendered exactly when the result carries a
\* distance value; a result whose distance is null or absent is rendered
\* without a distance line, and the invocation still succeeds.
C8_DistanceLine ==
    \A s \in Slots :
        (Resolved(s, "skald-search") /\ HasResults(inv[s].response))
        => LET results == inv[s].response.v["results"].v
               txt == inv[s].text
           IN  /\ inv[s].status = "Succeeded"
               /\ \A i \in 1..Len(results) :
                     \E p \in 3..Len(txt) :
                        /\ ResultAt(txt, p, i, results[i])
                        /\ DistanceLineAt(txt, p) <=> HasDistance(results[i])
                        /\ HasDistance(results[i])
                           => txt[p + 4] =
                                "   Distance: "
                                  \o FourDecimals(results[i].v["distance"])
                                  \o " (lower is more relevant)"

\* C9: when the backend returns a result for create-memo or update-memo the
\* invocation ends Succeeded with a text, never as a tool error: an
\* ok-flagged result yields the confirmation naming the title (create) or the
\* memo_id (update), a result that is not ok yields the fixed failure line.
C9_StructuredResult ==
    \A s \in Slots :
        /\ (Resolved(s, "skald-create-memo") /\ inv[s].response.t = "object")
           => /\ inv[s].status = "Succeeded"
              /\ inv[s].error = ""
              /\ inv[s].text =
                   IF Get(inv[s].response.v, "ok") = Bool(TRUE)
                   THEN <<CheckMark \o " Memo \""
                            \o inv[s].args["title"].v
                            \o "\" created successfully!">>
                   ELSE <<"Failed to create memo">>
        /\ (Resolved(s, "skald-update-memo") /\ inv[s].response.t = "object")
           => /\ inv[s].status = "Succeeded"
              /\ inv[s].error = ""
              /\ inv[s].text =
                   IF Get(inv[s].response.v, "ok") = Bool(TRUE)
                   THEN <<CheckMark \o " Memo \""
                            \o inv[s].args["memo_id"].v
                            \o "\" updated successfully!">>
                   ELSE <<"Failed to update memo">>

\* a create-memo titled 'API Reference' got a result flagged not ok and
\* ended Succeeded with the failure line
C9_Witness ==
    \E s \in Slots :
        /\ Resolved(s, "skald-create-memo")
        /\ inv[s].args["title"] = Str("API Reference")
        /\ inv[s].response = Obj([ok |-> Bool(FALSE)])
        /\ inv[s].status = "Succeeded"
        /\ inv[s].text = <<"Failed to create memo">>

\* the names of the memo's tags, in order
TagNames(m) == [i \in DOMAIN m["tags"].v |-> m["tags"].v[i].v["tag"].v]

\* the value of an optional memo attribute, 'None' when absent or empty
ValueOrNone(m, k) ==
    IF k \notin DOMAIN m \/ m[k] = Null \/ m[k] = Str("") THEN "None"
    ELSE m[k].v

\* the eleven labeled lines of get-memo, in their fixed order, the Tags line
\* being tagsLine
LabeledLines(s, tagsLine) ==
    LET m == inv[s].response.v
        txt == inv[s].text
    IN  /\ inv[s].status = "Succeeded"
        /\ Len(txt) >= 11
        /\ txt[1] = "Memo: " \o m["title"].v
        /\ txt[2] = "UUID: " \o m["uuid"].v
        /\ txt[3] = "Created: " \o m["created_at"].v
        /\ txt[4] = "Updated: " \o m["updated_at"].v
        /\ txt[5] = "Summary: " \o m["summary"].v
        /\ txt[6] = "Content: " \o m["content"].v
        /\ txt[7] = "Tags: " \o tagsLine
        /\ txt[8] = "Client Reference ID: "
                      \o ValueOrNone(m, "client_reference_id")
        /\ txt[9] = "Source: " \o ValueOrNone(m, "source")
        /\ txt[10] = "Type: " \o m["type"].v
        /\ txt[11] = "Chunks: " \o ToString(Len(m["chunks"].v))

\* C10 as stated: the labeled lines come in the fixed order Memo, UUID,
\* Created, Updated, Summary, Content, Tags, Client Reference ID, Source,
\* Type, Chunks; the Tags line is 'Tags: None' for an empty tags sequence and
\* the tag names joined by ', ' otherwise; Client Reference ID and Source
\* render 'None' when absent or empty.
C10_TagsNoneIffNoTags ==
    \A s \in Slots :
        (Resolved(s, "skald-get-memo") /\ inv[s].response.t = "object")
        => LabeledLines(s, IF TagNames(inv[s].response.v) = <<>> THEN "None"
                           ELSE Join(TagNames(inv[s].response.v), ", "))

\* C10 (amended): the same lines in the same order, the Tags line being
\* 'Tags: None' when the tag names joined by ', ' give the empty string (an
\* empty tags sequence, or a single tag whose name is empty) and the joined
\* names otherwise.
C10_LabeledLines ==
    \A s \in Slots :
        (Resolved(s, "skald-get-memo") /\ inv[s].response.t = "object")
        => /\ LabeledLines(s,
                 IF Join(TagNames(inv[s].response.v), ", ") = "" THEN "None"
                 ELSE Join(TagNames(inv[s].response.v), ", "))
           /\ TagNames(inv[s].response.v) = <<>>
              => inv[s].text[7] = "Tags: None"
           /\ TagNames(inv[s].response.v) = <<"a", "b">>
              => inv[s].text[7] = "Tags: a, b"

\* a memo tagged a and b, with an empty client reference id and no source,
\* was rendered
C10_Witness ==
    \E s \in Slots :
        /\ Resolved(s, "skald-get-memo") /\ inv[s].response.t = "object"
        /\ TagNames(inv[s].response.v) = <<"a", "b">>
        /\ Get(inv[s].response.v, "client_reference_id") = Str("")
        /\ "source" \notin DOMAIN inv[s].response.v
        /\ inv[s].text[7] = "Tags: a, b"
        /\ inv[s].text[8] = "Client Reference ID: None"
        /\ inv[s].text[9] = "Source: None"

-----------------------------------------------------------------------------
(* C11: the registered tools *)

\* C11: the registered tools are exactly the seven documented names, and a
\* call of skald-generate finds its handler: it is never answered with
\* "tool not found"
C11_SevenTools ==
    /\ Tools(build) = DocumentedTools
    /\ \A s \in Slots :
          inv[s].tool = "skald-generate" => inv[s].status # "NotFound"

-----------------------------------------------------------------------------
(* C12: the filters on their way to the backend *)

FilterTools == {"skald-chat", "skald-search"}

FilterKeys == {"field", "operator", "value", "filter_type"}

\* the one payload object of a chat or search call
Payload(s) == inv[s].call.argv[1].v

\* a chat or search invocation of the server that declares filters, past
\* validation
FilterCall(s) ==
    /\ build = "part_001"
    /\ inv[s].tool \in FilterTools
    /\ Started(s)

\* C12: for chat and search, a filters list that passed validation is the
\* filters field of the one payload, as long as the caller's list, filter by
\* filter in the caller's order with field, operator, value and filter_type
\* unchanged; without a filters list the payload has no filters field and
\* the one backend call is made all the same
C12_FiltersForwarded ==
    \A s \in Slots :
        FilterCall(s) =>
            /\ inv[s].calls = 1
            /\ Len(inv[s].call.argv) = 1
            /\ IF "filters" \in DOMAIN inv[s].args
               THEN /\ "filters" \in DOMAIN Payload(s)
                    /\ Payload(s)["filters"].t = "array"
                    /\ Len(Payload(s)["filters"].v)
                          = Len(inv[s].args["filters"].v)
                    /\ \A i \in DOMAIN inv[s].args["filters"].v :
                          /\ DOMAIN Payload(s)["filters"].v[i].v = FilterKeys
                          /\ \A k \in FilterKeys :
                                Payload(s)["filters"].v[i].v[k]
                                  = inv[s].args["filters"].v[i].v[k]
               ELSE "filters" \notin DOMAIN Payload(s)

\* a search reached the backend with two different filters in the caller's
\* order
C12_Witness ==
    \E s \in Slots :
        /\ FilterCall(s)
        /\ inv[s].tool = "skald-search"
        /\ "filters" \in DOMAIN inv[s].args
        /\ inv[s].args["filters"]
              = Arr(<<Filter("tags", "in", Arr(<<Str("a"), Str("b")>>),
                             "native_field"),
                      Filter("source", "eq", Str("docs"), "native_field")>>)
        /\ Payload(s)["filters"] = inv[s].args["filters"]

-----------------------------------------------------------------------------
(* C13: the shape of a filter's value *)

ListOperators == {"in", "not_in"}

IsString(x) == x.t = "string"

IsStrings(x) == x.t = "array" /\ \A i \in DOMAIN x.v : x.v[i].t = "string"

\* the value of filter f has the shape the claim ties to f's operator
ShapeFitsOperator(f) ==
    IF f.v["operator"].v \in ListOperators THEN IsStrings(f.v["value"])
    ELSE IsString(f.v["value"])

\* a chat or search call of the server that declares filters, with a
\* filters list among its raw arguments
GivenFilters(s) ==
    /\ build = "part_001"
    /\ inv[s].tool \in FilterTools
    /\ inv[s].phase # "idle"
    /\ inv[s].status # "NotFound"
    /\ "filters" \in DOMAIN inv[s].args

\* C13 (as claimed): every filter that reaches the backend has a sequence of
\* strings as value when its operator is in or not_in and a scalar string
\* for every other operator; a filter breaking this is rejected at
\* validation and never forwarded
C13_ValueShapeByOperator ==
    \A s \in Slots :
        GivenFilters(s) =>
            /\ Started(s) =>
                  \A i \in DOMAIN Payload(s)["filters"].v :
                      ShapeFitsOperator(Payload(s)["filters"].v[i])
            /\ (\E i \in DOMAIN inv[s].args["filters"].v :
                    ~ShapeFitsOperator(inv[s].args["filters"].v[i]))
                  => inv[s].status = "Rejected" /\ inv[s].calls = 0

\* C13 (amended): every filter that reaches the backend has a string or a
\* sequence of strings as value, whatever its operator; a filter whose value
\* is neither is rejected at validation and never forwarded
C13_ValueStringOrStrings ==
    \A s \in Slots :
        GivenFilters(s) =>
            /\ Started(s) =>
                  \A i \in DOMAIN Payload(s)["filters"].v :
                      \/ IsString(Payload(s)["filters"].v[i].v["value"])
                      \/ IsStrings(Payload(s)["filters"].v[i].v["value"])
            /\ (\E i \in DOMAIN inv[s].args["filters"].v :
                    /\ ~IsString(inv[s].args["filters"].v[i].v["value"])
                    /\ ~IsStrings(inv[s].args["filters"].v[i].v["value"]))
                  => inv[s].status = "Rejected" /\ inv[s].calls = 0

\* a filter with operator in and a scalar string value passed validation and
\* reached the backend
C13_Witness ==
    \E s \in Slots :
        /\ GivenFilters(s)
        /\ Started(s)
        /\ \E i \in DOMAIN Payload(s)["filters"].v :
              /\ Payload(s)["filters"].v[i].v["operator"] = Str("in")
              /\ Payload(s)["filters"].v[i].v["value"] = Str("core")

-----------------------------------------------------------------------------
(* C14: the chunk previews of get-memo *)

Labels ==
    <<"Memo: ", "UUID: ", "Created: ", "Updated: ", "Summary: ", "Content: ",
      "Tags: ", "Client Reference ID: ", "Source: ", "Type: ", "Chunks: ">>

\* a get-memo invocation whose backend call resolved with a memo object
Rendered(s) ==
    Resolved(s, "skald-get-memo") /\ inv[s].response.t = "object"

ChunksOf(s) == inv[s].response.v["chunks"].v

\* the preview line of chunk c: its index, the first PreviewLen characters
\* of its content, and an ellipsis whatever the content's length
Preview(c) ==
    LET content == c.v["chunk_content"].v
    IN  "Chunk " \o ToString(c.v["chunk_index"].v) \o ": "
          \o (IF Len(content) > PreviewLen THEN SubSeq(content, 1, PreviewLen)
              ELSE content)
          \o "..."

\* the text ends with one preview line per chunk, in the chunks' order
PreviewsLast(s) ==
    LET n == Len(ChunksOf(s))
        txt == inv[s].text
    IN  /\ Len(txt) >= Len(Labels) + n
        /\ \A i \in 1..n : txt[Len(txt) - n + i] = Preview(ChunksOf(s)[i])
        /\ n = 0 => Len(txt) = Len(Labels)

\* C14 (as claimed): after the labeled lines get-memo renders one preview
\* line per chunk, in order, 'Chunk <chunk_index>: ' then the first 100
\* characters of the content then '...', the ellipsis following every
\* preview; with zero chunks there is no chunk section and no trailing empty
\* line; and no labeled line is rendered with an empty value
C14_PreviewsAndNoEmptyValue ==
    \A s \in Slots :
        Rendered(s) =>
            /\ inv[s].status = "Succeeded"
            /\ PreviewsLast(s)
            /\ \A i \in DOMAIN Labels : inv[s].text[i] # Labels[i]

\* C14 (amended): the same previews, set off from the labeled lines by one
\* empty line; with zero chunks the text ends with the Chunks line; every
\* labeled line is rendered under its label whatever its value, so that a
\* memo with an empty summary has the line 'Summary: '
C14_ChunkPreviews ==
    \A s \in Slots :
        Rendered(s) =>
            /\ inv[s].status = "Succeeded"
            /\ PreviewsLast(s)
            /\ Len(ChunksOf(s)) > 0 =>
                  /\ Len(inv[s].text) = Len(Labels) + 1 + Len(ChunksOf(s))
                  /\ inv[s].text[Len(Labels) + 1] = ""
            /\ \A i \in DOMAIN Labels :
                  SubSeq(inv[s].text[i], 1, Len(Labels[i])) = Labels[i]
            /\ inv[s].response.v["summary"] = Str("")
                  => inv[s].text[5] = "Summary: "
            /\ ChunksOf(s) = <<Chunk(0, "short chunk")>>
                  => inv[s].text[13] = "Chunk 0: short chunk..."

\* a memo with an empty summary, a chunk shorter and a chunk longer than the
\* preview was rendered
C14_Witness ==
    \E s \in Slots :
        /\ Rendered(s)
        /\ inv[s].response.v["summary"] = Str("")
        /\ ChunksOf(s)
              = <<Chunk(0, "short chunk"), Chunk(1, Repeat("0123456789", 12))>>
        /\ inv[s].text[14]
              = "Chunk 1: " \o Repeat("0123456789", 10) \o "..."

-----------------------------------------------------------------------------
(* C15: the optional string fields of chat and create-memo *)

OptionalStrings == {"project_id", "reference_id", "source"}

\* C15: for chat and create-memo, an optional string field (project_id,
\* reference_id, source) is in the backend payload exactly when the caller
\* provided it, with the caller's value: a provided empty string is
\* forwarded as an empty string
C15_PresentIffProvided ==
    \A s \in Slots :
        (Started(s) /\ inv[s].tool \in {"skald-chat", "skald-create-memo"})
        => \A k \in OptionalStrings :
              /\ k \in DOMAIN Payload(s) <=> k \in DOMAIN inv[s].args
              /\ k \in DOMAIN inv[s].args
                    => Payload(s)[k] = inv[s].args[k]

-----------------------------------------------------------------------------
(* C16: invocations in flight together *)

\* two invocations of the same tool with the same arguments issued the same
\* backend call, and ended alike if their calls settled alike
Independent ==
    \A s, u \in Slots :
        (inv[s].tool = inv[u].tool /\ inv[s].args = inv[u].args)
        => /\ (Started(s) /\ Started(u)) => inv[s].call = inv[u].call
           /\ (/\ inv[s].phase = "done" /\ inv[u].phase = "done"
               /\ inv[s].settled = inv[u].settled
               /\ inv[s].response = inv[u].response)
              => /\ inv[s].status = inv[u].status
                 /\ inv[s].text = inv[u].text
                 /\ inv[s].error = inv[u].error

\* a step of one invocation leaves every other invocation as it was
OwnRecordOnly ==
    \A s \in Slots :
        inv'[s] # inv[s] => \A u \in Slots \ {s} : inv'[u] = inv[u]

\* C16: with invocations in flight together and their backend calls
\* settling in any order, the payload and the final text or error of an
\* invocation depend only on its own arguments and its own backend response;
\* no step of an invocation writes the record of another; the backend
\* client is never modified after startup
C16_Isolation ==
    [][/\ skald' = skald
       /\ OwnRecordOnly
       /\ Independent']_vars

\* two create-memo invocations with different titles were in flight
\* together, one settled while the other still awaits its backend call
C16_Witness ==
    \E s, u \in Slots :
        /\ inv[s].tool = "skald-create-memo"
        /\ inv[u].tool = "skald-create-memo"
        /\ inv[s].args # inv[u].args
        /\ inv[s].phase = "done" /\ inv[s].status = "Succeeded"
        /\ inv[u].phase = "awaiting"

-----------------------------------------------------------------------------
(* C17: what ends an invocation Failed *)

MutatingTools ==
    {"skald-create-memo", "skald-update-memo", "skald-delete-memo"}

Settled(s) == inv[s].phase = "done"

\* the backend call resolved with undefined or null
NoValue(s) == inv[s].response \in {Undefined, Null}

\* the backend call resolved with a result list one of whose results has no
\* distance attribute
LacksDistance(s) ==
    /\ HasResults(inv[s].response)
    /\ \E i \in DOMAIN inv[s].response.v["results"].v :
          "distance" \notin DOMAIN inv[s].response.v["results"].v[i].v

====
